---- MODULE Spec2Model ----
(***************************************************************************)
(* unifi-cli: the `clients list` command and its SQLite-backed filter.     *)
(*                                                                         *)
(* Texts (flag values, where clauses, string fields) are sequences of      *)
(* lexical atoms: an atom stands for one character or one word of the      *)
(* text, and the white space between atoms is left implicit.  String       *)
(* concatenation in the code is sequence concatenation here, so a quote    *)
(* atom inside a flag value lands in the clause exactly as in the code.    *)
(*                                                                         *)
(* db.Query is evaluated by the SQL engine the code links in; its          *)
(* tokenizer, expression grammar, name resolution and comparison rules     *)
(* are modelled for the part of the language the atoms below can spell.   *)
(***************************************************************************)
EXTENDS Integers, Sequences, FiniteSets, TLC

\* Longest input collection handed to the command or to Filter.Apply.
MaxClients == 2

\* Most Apply calls made on one Filter.
MaxApplies == 2
\* Most calls of config.Get made outside the command.
MaxGets == 2

(***************************************************************************)
(* Client records (api.Client), restricted to six of its fields.           *)
(***************************************************************************)
Client(mac, wired, blocked, ap, signal, fixed) ==
    [mac |-> mac, is_wired |-> wired, blocked |-> blocked,
     ap_mac |-> ap, signal |-> signal, use_fixed_ip |-> fixed]

ClientPool ==
    { Client(<<"m1">>, FALSE, FALSE, <<"a">>,      -60, TRUE),
      Client(<<"m2">>, TRUE,  FALSE, << >>,        -49, FALSE),
      Client(<<"m3">>, FALSE, TRUE,  <<"a", "b">>, -61, FALSE),
      Client(<<"m4">>, TRUE,  TRUE,  <<"a">>,      -50, TRUE) }

RECURSIVE SeqsUpTo(_, _)
SeqsUpTo(S, n) ==
    IF n = 0 THEN { << >> }
    ELSE LET shorter == SeqsUpTo(S, n - 1)
         IN  shorter \cup { Append(s, x) : s \in shorter, x \in S }

Collections == SeqsUpTo(ClientPool, MaxClients)

(***************************************************************************)
(* encoding/json on api.Client.  A document is the sequence of members     *)
(* that Marshal writes, in struct order.                                    *)
(***************************************************************************)
JStr(t)  == [t |-> "string", s |-> t,     n |-> 0]
JNum(n)  == [t |-> "number", s |-> << >>, n |-> n]
JBool(b) == [t |-> IF b THEN "true" ELSE "false", s |-> << >>, n |-> 0]

Member(key, val) == [key |-> key, val |-> val]

\* Fault variant of Marshal: ap_mac is tagged omitempty.
MarshalOmitsEmpty(c) ==
    << Member("mac",      JStr(c.mac)),
       Member("uptime",   JNum(0)),
       Member("is_wired", JBool(c.is_wired)),
       Member("hostname", JStr(<< >>)),
       Member("name",     JStr(<< >>)),
       Member("ip",       JStr(<< >>)),
       Member("essid",    JStr(<< >>)),
       Member("channel",  JNum(0)),
       Member("rssi",     JNum(0)),
       Member("signal",   JNum(c.signal)),
       Member("tx_rate",  JNum(0)),
       Member("rx_rate",  JNum(0)),
       Member("tx_bytes", JNum(0)),
       Member("rx_bytes", JNum(0)),
       Member("satisfaction", JNum(0)) >> \o
    (IF c.ap_mac = << >> THEN << >> ELSE << Member("ap_mac", JStr(c.ap_mac)) >>) \o
    << Member("sw_mac",   JStr(<< >>)),
       Member("sw_port",  JNum(0)),
       Member("use_fixedip", JBool(c.use_fixed_ip)),
       Member("blocked",  JBool(c.blocked)) >>

\* Every field is written: no tag of api.Client says omitempty.  The fields
\* outside the six are zero in every modelled client, and the members that
\* clients_view reads are written with that zero value.
Marshal(c) ==
    << Member("mac",      JStr(c.mac)),
       Member("uptime",   JNum(0)),
       Member("is_wired", JBool(c.is_wired)),
       Member("hostname", JStr(<< >>)),
       Member("name",     JStr(<< >>)),
       Member("ip",       JStr(<< >>)),
       Member("essid",    JStr(<< >>)),
       Member("channel",  JNum(0)),
       Member("rssi",     JNum(0)),
       Member("signal",   JNum(c.signal)),
       Member("tx_rate",  JNum(0)),
       Member("rx_rate",  JNum(0)),
       Member("tx_bytes", JNum(0)),
       Member("rx_bytes", JNum(0)),
       Member("satisfaction", JNum(0)),
       Member("ap_mac",   JStr(c.ap_mac)),
       Member("sw_mac",   JStr(<< >>)),
       Member("sw_port",  JNum(0)),
       Member("use_fixedip", JBool(c.use_fixed_ip)),
       Member("blocked",  JBool(c.blocked)) >>

HasMember(doc, key) == \E i \in 1..Len(doc) : doc[i].key = key

\* The last member with the key wins, as in encoding/json.
Lookup(doc, key) ==
    LET i == CHOOSE j \in 1..Len(doc) :
                 /\ doc[j].key = key
                 /\ \A k \in (j+1)..Len(doc) : doc[k].key # key
    IN  doc[i].val

FieldString(doc, key) == IF HasMember(doc, key) THEN Lookup(doc, key).s ELSE << >>
FieldInt(doc, key)    == IF HasMember(doc, key) THEN Lookup(doc, key).n ELSE 0
FieldBool(doc, key)   == IF HasMember(doc, key) THEN Lookup(doc, key).t = "true" ELSE FALSE

\* Unmarshal fails when a member's JSON type does not fit the Go field.
TypeFits(doc, key, types) == HasMember(doc, key) => Lookup(doc, key).t \in types

UnmarshalOK(doc) ==
    /\ TypeFits(doc, "mac", {"string"})
    /\ TypeFits(doc, "ap_mac", {"string"})
    /\ TypeFits(doc, "signal", {"number"})
    /\ TypeFits(doc, "is_wired", {"true", "false"})
    /\ TypeFits(doc, "blocked", {"true", "false"})
    /\ TypeFits(doc, "use_fixedip", {"true", "false"})

Unmarshal(doc) ==
    Client(FieldString(doc, "mac"), FieldBool(doc, "is_wired"),
           FieldBool(doc, "blocked"), FieldString(doc, "ap_mac"),
           FieldInt(doc, "signal"), FieldBool(doc, "use_fixedip"))

(***************************************************************************)
(* SQL values and the columns of clients_view.                             *)
(***************************************************************************)
SNull    == [k |-> "null", n |-> 0, t |-> << >>]
SInt(n)  == [k |-> "int",  n |-> n, t |-> << >>]
SText(t) == [k |-> "text", n |-> 0, t |-> t]
SBool(b) == IF b THEN SInt(1) ELSE SInt(0)

\* Fault variant of JsonExtract: JSON true/false come out as texts.
JsonExtractBoolAsText(doc, key) ==
    IF ~HasMember(doc, key) THEN SNull
    ELSE LET v == Lookup(doc, key)
         IN  CASE v.t = "number" -> SInt(v.n)
               [] v.t = "string" -> SText(v.s)
               [] OTHER          -> SText(<<v.t>>)

\* json_extract(data, '$.key'): JSON true/false come out as the integers
\* 1/0, numbers as INTEGER, strings as TEXT, a missing member as NULL.
JsonExtract(doc, key) ==
    IF ~HasMember(doc, key) THEN SNull
    ELSE LET v == Lookup(doc, key)
         IN  CASE v.t = "true"   -> SInt(1)
               [] v.t = "false"  -> SInt(0)
               [] v.t = "number" -> SInt(v.n)
               [] OTHER          -> SText(v.s)

\* The stored text of a document, as the column `data` shows it.
RECURSIVE RenderFrom(_, _)
RenderFrom(doc, i) ==
    IF i > Len(doc) THEN <<"}">>
    ELSE LET v == doc[i].val
             body == CASE v.t = "string" -> <<"\"">> \o v.s \o <<"\"">>
                       [] v.t = "number" -> <<ToString(v.n)>>
                       [] OTHER          -> <<v.t>>
         IN  <<doc[i].key, ":">> \o body \o RenderFrom(doc, i + 1)

Render(doc) == <<"{">> \o RenderFrom(doc, 1)

\* clientTableSchema: the columns of clients_view.  FieldColumns are the
\* ones the modelled clients differ in; the others hold the zero value.
FieldColumns == {"mac", "is_wired", "blocked", "ap_mac", "signal"}
OtherColumns == {"name", "hostname", "ip", "essid", "uptime", "tx_rate",
                 "rx_rate", "satisfaction", "sw_mac", "sw_port", "channel",
                 "rssi", "tx_bytes", "rx_bytes"}
ViewColumns  == {"data"} \cup FieldColumns \cup OtherColumns

ColumnValue(doc, col) ==
    IF col = "data" THEN SText(Render(doc)) ELSE JsonExtract(doc, col)

(***************************************************************************)
(* The tokenizer of the SQL engine.                                        *)
(***************************************************************************)
Keywords == {"AND", "OR", "NOT", "BETWEEN", "IN", "LIKE", "NULL",
             "ORDER", "BY", "ASC", "DESC"}
Puncts   == {"(", ")", ",", "=", "!=", "<", ">", "<=", ">="}

\* Numeric literals the texts can spell, with their values.
NumeralTable == << <<"0", 0>>, <<"1", 1>>, <<"123", 123>>,
                   <<"-49", -49>>, <<"-50", -50>>, <<"-55", -55>>,
                   <<"-60", -60>>, <<"-61", -61>>, <<"-70", -70>> >>
Numerals == { NumeralTable[i][1] : i \in 1..Len(NumeralTable) }
NumeralValue(a) ==
    NumeralTable[CHOOSE i \in 1..Len(NumeralTable) : NumeralTable[i][1] = a][2]

\* Characters the tokenizer rejects outside a quoted run.
IllegalAtoms == {"#"}

Tok(k, s, n, t) == [k |-> k, s |-> s, n |-> n, t |-> t]

\* Scan a quoted run opened by quote q; i is the first atom after the
\* opening quote.  Two adjacent quotes inside the run are one quote atom of
\* the content; a run that is never closed is an error.
RECURSIVE ScanQuoted(_, _, _, _)
ScanQuoted(text, i, q, acc) ==
    IF i > Len(text) THEN [ok |-> FALSE, t |-> acc, next |-> i]
    ELSE IF text[i] = q
         THEN IF i + 1 <= Len(text) /\ text[i + 1] = q
              THEN ScanQuoted(text, i + 2, q, Append(acc, q))
              ELSE [ok |-> TRUE, t |-> acc, next |-> i + 1]
         ELSE ScanQuoted(text, i + 1, q, Append(acc, text[i]))

RECURSIVE LexFrom(_, _, _)
LexFrom(text, i, acc) ==
    IF i > Len(text) THEN [ok |-> TRUE, toks |-> acc]
    ELSE LET a == text[i]
         IN  IF a \in {"'", "\""}
             THEN LET r == ScanQuoted(text, i + 1, a, << >>)
                      k == IF a = "'" THEN "str" ELSE "dq"
                  IN  IF r.ok
                      THEN LexFrom(text, r.next, Append(acc, Tok(k, "", 0, r.t)))
                      ELSE [ok |-> FALSE, toks |-> acc]
             ELSE IF a \in IllegalAtoms THEN [ok |-> FALSE, toks |-> acc]
             ELSE IF a \in Keywords \cup Puncts
                  THEN LexFrom(text, i + 1, Append(acc, Tok("kw", a, 0, << >>)))
             ELSE IF a \in Numerals
                  THEN LexFrom(text, i + 1,
                               Append(acc, Tok("num", a, NumeralValue(a), << >>)))
             ELSE LexFrom(text, i + 1, Append(acc, Tok("id", a, 0, << >>)))

Lex(text) == LexFrom(text, 1, << >>)

(***************************************************************************)
(* The expression grammar of the SQL engine, lowest precedence first:      *)
(* OR, AND, NOT, equality (= != IN LIKE BETWEEN), ordering (< <= > >=),    *)
(* primary.  A parse result is [ok, ast, i]: i is the next token to read.  *)
(***************************************************************************)
Node(op, s, n, t, kids) == [op |-> op, s |-> s, n |-> n, t |-> t, kids |-> kids]
Leaf(op, s, n, t) == Node(op, s, n, t, << >>)
Un(op, x)     == Node(op, "", 0, << >>, <<x>>)
Bin(op, x, y) == Node(op, "", 0, << >>, <<x, y>>)

NoAst == Leaf("none", "", 0, << >>)
Fail(i) == [ok |-> FALSE, ast |-> NoAst, i |-> i]
Done(ast, i) == [ok |-> TRUE, ast |-> ast, i |-> i]

IsKw(toks, i, w) == i <= Len(toks) /\ toks[i].k = "kw" /\ toks[i].s = w
IsKwIn(toks, i, ws) == i <= Len(toks) /\ toks[i].k = "kw" /\ toks[i].s \in ws

RelOps == {"<", "<=", ">", ">="}
EqOps  == {"=", "!="}
OpName(w) == CASE w = "<"  -> "lt" [] w = "<=" -> "le" [] w = ">" -> "gt"
               [] w = ">=" -> "ge" [] w = "="  -> "eq" [] OTHER   -> "ne"

RECURSIVE ParseOr(_, _), OrTail(_, _), ParseAnd(_, _), AndTail(_, _),
          ParseNot(_, _), ParseEq(_, _), EqTail(_, _), EqStep(_, _),
          ParseRel(_, _), RelTail(_, _), ParsePrimary(_, _), ParseList(_, _, _)

ParsePrimary(toks, i) ==
    IF i > Len(toks) THEN Fail(i)
    ELSE LET tk == toks[i]
             Close(r) == IF r.ok /\ IsKw(toks, r.i, ")")
                         THEN Done(r.ast, r.i + 1) ELSE Fail(r.i)
         IN  CASE tk.k = "num" -> Done(Leaf("int", "", tk.n, << >>), i + 1)
               [] tk.k = "str" -> Done(Leaf("str", "", 0, tk.t), i + 1)
               [] tk.k = "dq"  -> Done(Leaf("dq", "", 0, tk.t), i + 1)
               [] tk.k = "id"  -> Done(Leaf("col", tk.s, 0, << >>), i + 1)
               [] tk.k = "kw" /\ tk.s = "NULL" -> Done(Leaf("null", "", 0, << >>), i + 1)
               [] tk.k = "kw" /\ tk.s = "(" -> Close(ParseOr(toks, i + 1))
               [] OTHER -> Fail(i)

\* left, then the binary operation named op on it and the operand r.
Combine(op, left, r) ==
    IF r.ok THEN Done(Bin(op, left.ast, r.ast), r.i) ELSE Fail(r.i)

RelTail(toks, left) ==
    IF left.ok /\ IsKwIn(toks, left.i, RelOps)
    THEN RelTail(toks, Combine(OpName(toks[left.i].s), left,
                               ParsePrimary(toks, left.i + 1)))
    ELSE left

ParseRel(toks, i) == RelTail(toks, ParsePrimary(toks, i))

\* The members of an IN list after its opening parenthesis.
ParseList(toks, i, acc) ==
    LET More(r) ==
            IF ~r.ok THEN [ok |-> FALSE, kids |-> acc, i |-> r.i]
            ELSE IF IsKw(toks, r.i, ",")
                 THEN ParseList(toks, r.i + 1, Append(acc, r.ast))
            ELSE IF IsKw(toks, r.i, ")")
                 THEN [ok |-> TRUE, kids |-> Append(acc, r.ast), i |-> r.i + 1]
            ELSE [ok |-> FALSE, kids |-> acc, i |-> r.i]
    IN  More(ParseOr(toks, i))

\* What follows the operand left at the equality level: a comparison, or
\* LIKE, BETWEEN or IN, each of the three possibly after NOT.
EqStep(toks, left) ==
    LET neg == IsKw(toks, left.i, "NOT")
        j   == IF neg THEN left.i + 1 ELSE left.i
        Wrap(ast) == IF neg THEN Un("not", ast) ELSE ast
        Between(lo) ==
            LET Upper(hi) ==
                    IF lo.ok /\ IsKw(toks, lo.i, "AND") /\ hi.ok
                    THEN Done(Wrap(Node("between", "", 0, << >>,
                                        <<left.ast, lo.ast, hi.ast>>)), hi.i)
                    ELSE Fail(lo.i)
            IN  Upper(ParseRel(toks, lo.i + 1))
        Members(r) ==
            IF r.ok
            THEN Done(Wrap(Node("in", "", 0, << >>, <<left.ast>> \o r.kids)), r.i)
            ELSE Fail(r.i)
        Operand(r) ==
            CASE ~neg /\ IsKwIn(toks, j, EqOps) -> Combine(OpName(toks[j].s), left, r)
              [] IsKw(toks, j, "LIKE") ->
                    IF r.ok THEN Done(Wrap(Bin("like", left.ast, r.ast)), r.i)
                    ELSE Fail(r.i)
              [] OTHER -> Between(r)
    IN  IF IsKw(toks, j, "IN")
        THEN IF IsKw(toks, j + 1, "(")
             THEN Members(ParseList(toks, j + 2, << >>)) ELSE Fail(j)
        ELSE Operand(ParseRel(toks, j + 1))

EqTail(toks, left) ==
    IF /\ left.ok
       /\ \/ IsKwIn(toks, left.i, EqOps \cup {"LIKE", "BETWEEN", "IN"})
          \/ /\ IsKw(toks, left.i, "NOT")
             /\ IsKwIn(toks, left.i + 1, {"LIKE", "BETWEEN", "IN"})
    THEN EqTail(toks, EqStep(toks, left))
    ELSE left

ParseEq(toks, i) == EqTail(toks, ParseRel(toks, i))

Negate(r) == IF r.ok THEN Done(Un("not", r.ast), r.i) ELSE r

ParseNot(toks, i) ==
    IF IsKw(toks, i, "NOT") THEN Negate(ParseNot(toks, i + 1))
    ELSE ParseEq(toks, i)

AndTail(toks, left) ==
    IF left.ok /\ IsKw(toks, left.i, "AND")
    THEN AndTail(toks, Combine("and", left, ParseNot(toks, left.i + 1)))
    ELSE left

ParseAnd(toks, i) == AndTail(toks, ParseNot(toks, i))

\* Fault variant of OrTail: AND and OR share one level and group from the
\* left.
OrTailOneLevel(toks, left) ==
    IF left.ok /\ IsKwIn(toks, left.i, {"OR", "AND"})
    THEN OrTail(toks, Combine(IF toks[left.i].s = "OR" THEN "or" ELSE "and",
                              left, ParseNot(toks, left.i + 1)))
    ELSE left

OrTail(toks, left) ==
    IF left.ok /\ IsKw(toks, left.i, "OR")
    THEN OrTail(toks, Combine("or", left, ParseAnd(toks, left.i + 1)))
    ELSE left

ParseOr(toks, i) == OrTail(toks, ParseAnd(toks, i))

(***************************************************************************)
(* "SELECT data FROM clients_view WHERE " followed by the clause: what is  *)
(* left after the WHERE expression must be an ORDER BY term or nothing.    *)
(***************************************************************************)
Stmt(ok, where, ordered, key, desc) ==
    [ok |-> ok, where |-> where, ordered |-> ordered, key |-> key, desc |-> desc]
BadStmt == Stmt(FALSE, NoAst, FALSE, NoAst, FALSE)

\* The ORDER BY term whose ordering expression k starts after ORDER BY.
OrderTerm(toks, where, k) ==
    IF ~k.ok THEN BadStmt
    ELSE IF k.i > Len(toks) THEN Stmt(TRUE, where, TRUE, k.ast, FALSE)
    ELSE IF IsKwIn(toks, k.i, {"ASC", "DESC"}) /\ k.i + 1 > Len(toks)
         THEN Stmt(TRUE, where, TRUE, k.ast, toks[k.i].s = "DESC")
    ELSE BadStmt

AfterWhere(toks, w) ==
    IF ~w.ok THEN BadStmt
    ELSE IF w.i > Len(toks) THEN Stmt(TRUE, w.ast, FALSE, NoAst, FALSE)
    ELSE IF IsKw(toks, w.i, "ORDER") /\ IsKw(toks, w.i + 1, "BY")
         THEN OrderTerm(toks, w.ast, ParseOr(toks, w.i + 2))
    ELSE BadStmt

ParseStatement(toks) == AfterWhere(toks, ParseOr(toks, 1))

\* Name resolution.  A bare name must be a column of the view, or one of
\* the constants true/false; a double-quoted name that is no column is
\* taken to be a string literal.
BoolNames == {"true", "false"}

RECURSIVE Resolves(_)
Resolves(ast) ==
    /\ ast.op = "col" => ast.s \in ViewColumns \cup BoolNames
    /\ \A i \in 1..Len(ast.kids) : Resolves(ast.kids[i])

(***************************************************************************)
(* Comparison: columns of the view and literals carry no type affinity,    *)
(* so values are compared as they are; every INTEGER sorts before every    *)
(* TEXT, and texts compare atom by atom in the order of Alphabet.          *)
(***************************************************************************)
Alphabet == << "%", "'", "-49", "-50", "-55", "-60", "-61", "-70", "0", "1",
               "123", "=", "A", "B", "M1", "OR", "_", "a", "abc", "b",
               "m1", "m2", "m3", "m4", "x" >>
Rank(a) == CHOOSE i \in 1..Len(Alphabet) : Alphabet[i] = a

RECURSIVE CmpText(_, _, _)
CmpText(x, y, i) ==
    IF i > Len(x) /\ i > Len(y) THEN 0
    ELSE IF i > Len(x) THEN -1
    ELSE IF i > Len(y) THEN 1
    ELSE IF x[i] = y[i] THEN CmpText(x, y, i + 1)
    ELSE IF Rank(x[i]) < Rank(y[i]) THEN -1 ELSE 1

\* Both arguments are non-null.
Cmp(a, b) ==
    CASE a.k = "int" /\ b.k = "int" ->
            IF a.n < b.n THEN -1 ELSE IF a.n > b.n THEN 1 ELSE 0
      [] a.k = "int" /\ b.k = "text" -> -1
      [] a.k = "text" /\ b.k = "int" -> 1
      [] OTHER -> CmpText(a.t, b.t, 1)

Holds(op, c) ==
    CASE op = "eq" -> c = 0  [] op = "ne" -> c # 0
      [] op = "lt" -> c < 0  [] op = "le" -> c <= 0
      [] op = "gt" -> c > 0  [] OTHER     -> c >= 0

CmpOp(op, a, b) ==
    IF a.k = "null" \/ b.k = "null" THEN SNull
    ELSE SBool(Holds(op, Cmp(a, b)))

\* The truth value of a value used as a condition: "T", "F" or "N" (null).
\* A text counts through its numeric prefix.
Truth(v) ==
    CASE v.k = "null" -> "N"
      [] v.k = "int"  -> IF v.n # 0 THEN "T" ELSE "F"
      [] OTHER -> IF Len(v.t) > 0 /\ v.t[1] \in Numerals /\ NumeralValue(v.t[1]) # 0
                  THEN "T" ELSE "F"

FromTruth(x) == CASE x = "T" -> SInt(1) [] x = "F" -> SInt(0) [] OTHER -> SNull

And3(x, y) == IF x = "F" \/ y = "F" THEN "F"
              ELSE IF x = "T" /\ y = "T" THEN "T" ELSE "N"
Or3(x, y)  == IF x = "T" \/ y = "T" THEN "T"
              ELSE IF x = "F" /\ y = "F" THEN "F" ELSE "N"
Not3(x)    == CASE x = "T" -> "F" [] x = "F" -> "T" [] OTHER -> "N"

\* LIKE folds the case of ASCII letters; % is any run, _ any one atom.
FoldTable == << <<"A", "a">>, <<"B", "b">>, <<"M1", "m1">> >>
\* Fault variant of Fold: letter case is kept.
FoldNone(a) == a
Fold(a) ==
    IF \E i \in 1..Len(FoldTable) : FoldTable[i][1] = a
    THEN FoldTable[CHOOSE i \in 1..Len(FoldTable) : FoldTable[i][1] = a][2]
    ELSE a

RECURSIVE LikeMatch(_, _, _, _)
LikeMatch(pat, i, val, j) ==
    IF i > Len(pat) THEN j > Len(val)
    ELSE IF pat[i] = "%"
         THEN \E k \in j..(Len(val) + 1) : LikeMatch(pat, i + 1, val, k)
    ELSE /\ j <= Len(val)
         /\ (pat[i] = "_" \/ Fold(pat[i]) = Fold(val[j]))
         /\ LikeMatch(pat, i + 1, val, j + 1)

AsText(v) == IF v.k = "int" THEN <<ToString(v.n)>> ELSE v.t

Like(val, pat) ==
    IF val.k = "null" \/ pat.k = "null" THEN SNull
    ELSE SBool(LikeMatch(AsText(pat), 1, AsText(val), 1))

\* Fault variant of BetweenValue: the lower bound is excluded.
BetweenValueOpenBelow(x, lo, hi) ==
    FromTruth(And3(Truth(CmpOp("gt", x, lo)), Truth(CmpOp("le", x, hi))))

\* x BETWEEN lo AND hi is x >= lo AND x <= hi.
BetweenValue(x, lo, hi) ==
    FromTruth(And3(Truth(CmpOp("ge", x, lo)), Truth(CmpOp("le", x, hi))))

NameValue(doc, name) ==
    IF name \in ViewColumns THEN ColumnValue(doc, name) ELSE SBool(name = "true")

RECURSIVE Eval(_, _), InTruth(_, _, _, _)
Eval(ast, doc) ==
    CASE ast.op = "int"  -> SInt(ast.n)
      [] ast.op = "str"  -> SText(ast.t)
      [] ast.op = "null" -> SNull
      [] ast.op = "col"  -> NameValue(doc, ast.s)
      [] ast.op = "dq"   ->
            IF Len(ast.t) = 1 /\ ast.t[1] \in ViewColumns
            THEN ColumnValue(doc, ast.t[1]) ELSE SText(ast.t)
      [] ast.op = "not"  -> FromTruth(Not3(Truth(Eval(ast.kids[1], doc))))
      [] ast.op = "and"  -> FromTruth(And3(Truth(Eval(ast.kids[1], doc)),
                                           Truth(Eval(ast.kids[2], doc))))
      [] ast.op = "or"   -> FromTruth(Or3(Truth(Eval(ast.kids[1], doc)),
                                          Truth(Eval(ast.kids[2], doc))))
      [] ast.op = "like" -> Like(Eval(ast.kids[1], doc), Eval(ast.kids[2], doc))
      [] ast.op = "between" ->
            BetweenValue(Eval(ast.kids[1], doc), Eval(ast.kids[2], doc),
                         Eval(ast.kids[3], doc))
      [] ast.op = "in"   -> FromTruth(InTruth(ast, doc, 2, "F"))
      [] OTHER -> CmpOp(ast.op, Eval(ast.kids[1], doc), Eval(ast.kids[2], doc))

\* Fault variant of InTruth: a member matches when the value contains it.
InTruthContains(ast, doc, i, acc) ==
    LET Inside(x, v) ==
            IF x.k = "null" \/ v.k = "null" THEN "N"
            ELSE IF LikeMatch(<<"%">> \o AsText(v) \o <<"%">>, 1, AsText(x), 1)
                 THEN "T" ELSE "F"
    IN  IF i > Len(ast.kids) THEN acc
        ELSE InTruth(ast, doc, i + 1,
                     Or3(acc, Inside(Eval(ast.kids[1], doc), Eval(ast.kids[i], doc))))

\* x IN (v2, ..., vn) is x = v2 OR ... OR x = vn.
InTruth(ast, doc, i, acc) ==
    IF i > Len(ast.kids) THEN acc
    ELSE InTruth(ast, doc, i + 1,
                 Or3(acc, Truth(CmpOp("eq", Eval(ast.kids[1], doc),
                                            Eval(ast.kids[i], doc)))))

(***************************************************************************)
(* db.Query on the stored rows.  The table is scanned in rowid order,      *)
(* which is the order of insertion; ORDER BY sorts the selected rows       *)
(* stably, nulls first.                                                    *)
(***************************************************************************)
KeyRank(v) == CASE v.k = "null" -> 0 [] v.k = "int" -> 1 [] OTHER -> 2

KeyLess(a, b) ==
    IF KeyRank(a) # KeyRank(b) THEN KeyRank(a) < KeyRank(b)
    ELSE IF a.k = "null" THEN FALSE
    ELSE Cmp(a, b) < 0

\* The row whose key is a sorts after the row whose key is b.
SortsAfter(a, b, desc) == IF desc THEN KeyLess(a, b) ELSE KeyLess(b, a)

\* Insert doc into the sorted sequence docs, after the rows that do not
\* sort later than it.
RECURSIVE InsertSorted(_, _, _, _, _)
InsertSorted(docs, doc, key, desc, i) ==
    IF i > Len(docs) THEN Append(docs, doc)
    ELSE IF SortsAfter(Eval(key, docs[i]), Eval(key, doc), desc)
         THEN SubSeq(docs, 1, i - 1) \o <<doc>> \o SubSeq(docs, i, Len(docs))
         ELSE InsertSorted(docs, doc, key, desc, i + 1)

RECURSIVE SortBy(_, _, _, _, _)
SortBy(docs, key, desc, i, acc) ==
    IF i > Len(docs) THEN acc
    ELSE SortBy(docs, key, desc, i + 1, InsertSorted(acc, docs[i], key, desc, 1))

\* The statement, if every name in it resolves.
Resolved(st) ==
    IF st.ok /\ Resolves(st.where) /\ (st.ordered => Resolves(st.key))
    THEN st ELSE BadStmt

Tokens(lx) == IF lx.ok THEN lx.toks ELSE << >>

Prepare(clause) == Resolved(ParseStatement(Tokens(Lex(clause))))

\* The rows the prepared statement st returns.
Run(rows, st) ==
    LET Selected(doc) == Truth(Eval(st.where, doc)) = "T"
        Ordered(hits) == IF st.ordered THEN SortBy(hits, st.key, st.desc, 1, << >>)
                         ELSE hits
    IN  IF ~st.ok THEN [ok |-> FALSE, docs |-> << >>]
        ELSE [ok |-> TRUE, docs |-> Ordered(SelectSeq(rows, Selected))]

Query(rows, clause) == Run(rows, Prepare(clause))

(***************************************************************************)
(* internal/filter: the Filter object.  A database value is its handle     *)
(* state ("none", "open", "closed") and the rows of table clients.         *)
(***************************************************************************)
NoDB   == [state |-> "none", rows |-> << >>]
OpenDB == [state |-> "open", rows |-> << >>]

MapSeq(F(_), xs) == [i \in 1..Len(xs) |-> F(xs[i])]

\* A failure of the database itself, as the error branches of NewFilter,
\* insertClients and queryClients expect it: the call that fails (kind) and
\* the number of records or rows handled before it fails (at).
Fault(kind, at) == [kind |-> kind, at |-> at]
NoFault == Fault("none", 0)
NewFilterFaults == { Fault(k, 0) : k \in {"open", "schema"} }
ApplyFaults ==
    { Fault(k, 0) : k \in {"begin", "prepare", "commit"} } \cup
    { Fault(k, n) : k \in {"insert", "scan", "rows"}, n \in 0..(MaxClients - 1) }

\* NewFilter: open the database, create the table and the view.
NewFilterDB(f) ==
    CASE f.kind = "open"   -> [err |-> "failed to open database", db |-> NoDB]
      [] f.kind = "schema" -> [err |-> "failed to create schema",
                               db  |-> [state |-> "closed", rows |-> << >>]]
      [] OTHER             -> [err |-> "", db |-> OpenDB]

\* Fault variant of insertClients: the insert loop runs twice.
insertClientsTwice(dbv, clients, f) ==
    IF dbv.state # "open"
    THEN [err |-> "failed to begin transaction", db |-> dbv]
    ELSE [err |-> "",
          db  |-> [dbv EXCEPT !.rows = dbv.rows \o MapSeq(Marshal, clients)
                                                \o MapSeq(Marshal, clients)]]

\* Fault variant of insertClients: the records are inserted one by one,
\* outside a transaction, so the ones before a failure stay in the table.
insertClientsNoRollback(dbv, clients, f) ==
    IF dbv.state # "open" \/ f.kind = "begin"
    THEN [err |-> "failed to begin transaction", db |-> dbv]
    ELSE IF f.kind = "prepare"
    THEN [err |-> "failed to prepare statement", db |-> dbv]
    ELSE IF f.kind = "insert" /\ f.at < Len(clients)
    THEN [err |-> "failed to insert client",
          db  |-> [dbv EXCEPT !.rows =
                      dbv.rows \o MapSeq(Marshal, SubSeq(clients, 1, f.at))]]
    ELSE IF f.kind = "commit"
    THEN [err |-> "commit error", db |-> dbv]
    ELSE [err |-> "",
          db  |-> [dbv EXCEPT !.rows = dbv.rows \o MapSeq(Marshal, clients)]]

\* insertClients: one transaction that appends every client's document; on
\* an error the deferred Rollback leaves the table as it was.
insertClients(dbv, clients, f) ==
    IF dbv.state # "open" \/ f.kind = "begin"
    THEN [err |-> "failed to begin transaction", db |-> dbv]
    ELSE IF f.kind = "prepare"
    THEN [err |-> "failed to prepare statement", db |-> dbv]
    ELSE IF f.kind = "insert" /\ f.at < Len(clients)
    THEN [err |-> "failed to insert client", db |-> dbv]
    ELSE IF f.kind = "commit"
    THEN [err |-> "commit error", db |-> dbv]
    ELSE [err |-> "",
          db  |-> [dbv EXCEPT !.rows = dbv.rows \o MapSeq(Marshal, clients)]]

\* The index of the first document that does not decode, or 0.
FirstUndecodable(docs) ==
    IF \E i \in 1..Len(docs) : ~UnmarshalOK(docs[i])
    THEN CHOOSE i \in 1..Len(docs) :
             /\ ~UnmarshalOK(docs[i])
             /\ \A j \in 1..(i - 1) : UnmarshalOK(docs[j])
    ELSE 0

\* Fault variant of queryClients: a query that returns no row is an error.
queryClientsNoRowsIsError(dbv, clause, f) ==
    LET Rows(q) ==
            IF dbv.state # "open" \/ ~q.ok \/ Len(q.docs) = 0
            THEN [err |-> "failed to query clients", result |-> << >>]
            ELSE [err |-> "", result |-> MapSeq(Unmarshal, q.docs)]
    IN  Rows(Query(dbv.rows, clause))

\* queryClients: run the query, then scan and decode row after row; the
\* loop returns nil with the error of the first row that fails, and what
\* it has read so far with rows.Err() when the iteration stops.
queryClients(dbv, clause, f) ==
    LET Loop(docs, bad) ==
            IF f.kind = "scan" /\ f.at < Len(docs) /\ (bad = 0 \/ f.at < bad)
            THEN [err |-> "failed to scan row", result |-> << >>]
            ELSE IF bad # 0 /\ ~(f.kind = "rows" /\ f.at < bad)
            THEN [err |-> "failed to unmarshal client", result |-> << >>]
            ELSE IF f.kind = "rows" /\ f.at <= Len(docs)
            THEN [err |-> "iteration error",
                  result |-> MapSeq(Unmarshal, SubSeq(docs, 1, f.at))]
            ELSE [err |-> "", result |-> MapSeq(Unmarshal, docs)]
        Rows(q) ==
            IF dbv.state # "open" \/ ~q.ok
            THEN [err |-> "failed to query clients", result |-> << >>]
            ELSE Loop(q.docs, FirstUndecodable(q.docs))
    IN  Rows(Query(dbv.rows, clause))

\* Fault variant of Apply: a closed database is opened again by the call.
ApplyOnClosedHandle(dbv, clause, clients, f) ==
    LET Queried(ins, qry) ==
            [err |-> qry.err, result |-> qry.result, db |-> ins.db]
        Inserted(ins) ==
            IF ins.err # ""
            THEN [err |-> ins.err, result |-> << >>, db |-> ins.db]
            ELSE Queried(ins, queryClients(ins.db, clause, f))
    IN  Inserted(insertClients([dbv EXCEPT !.state = "open"], clients, f))

\* Filter.Apply: insert, then query.
Apply(dbv, clause, clients, f) ==
    LET Queried(ins, qry) ==
            [err |-> qry.err, result |-> qry.result, db |-> ins.db]
        Inserted(ins) ==
            IF ins.err # ""
            THEN [err |-> ins.err, result |-> << >>, db |-> ins.db]
            ELSE Queried(ins, queryClients(ins.db, clause, f))
    IN  Inserted(insertClients(dbv, clients, f))

(***************************************************************************)
(* internal/api: ListClients against the controller's response.            *)
(***************************************************************************)
Response(reqOK, status, valid, rc, data) ==
    [reqOK |-> reqOK, status |-> status, valid |-> valid, rc |-> rc, data |-> data]

OkResponse(R) == Response(TRUE, 200, TRUE, "ok", MapSeq(Marshal, R))

FailData == <<Client(<<"m1">>, FALSE, FALSE, <<"a">>, -60, TRUE)>>

Responses ==
    { OkResponse(R) : R \in Collections } \cup
    { Response(FALSE, 0, FALSE, "", << >>),
      Response(TRUE, 500, TRUE, "ok", MapSeq(Marshal, FailData)),
      Response(TRUE, 200, FALSE, "", << >>),
      Response(TRUE, 200, TRUE, "error", MapSeq(Marshal, FailData)) }

\* Fault variant of ListClients: meta.rc is not looked at.
ListClientsIgnoresRC(resp) ==
    IF ~resp.reqOK THEN [err |-> "request failed", clients |-> << >>]
    ELSE IF resp.status # 200
         THEN [err |-> "API request failed", clients |-> << >>]
    ELSE IF ~resp.valid \/ \E i \in 1..Len(resp.data) : ~UnmarshalOK(resp.data[i])
         THEN [err |-> "failed to parse response", clients |-> << >>]
    ELSE [err |-> "", clients |-> MapSeq(Unmarshal, resp.data)]

ListClients(resp) ==
    IF ~resp.reqOK THEN [err |-> "request failed", clients |-> << >>]
    ELSE IF resp.status # 200
         THEN [err |-> "API request failed", clients |-> << >>]
    ELSE IF ~resp.valid \/ \E i \in 1..Len(resp.data) : ~UnmarshalOK(resp.data[i])
         THEN [err |-> "failed to parse response", clients |-> << >>]
    ELSE IF resp.rc # "ok"
         THEN [err |-> "API returned error", clients |-> << >>]
    ELSE [err |-> "", clients |-> MapSeq(Unmarshal, resp.data)]

(***************************************************************************)
(* cmd: buildWhereClause.                                                  *)
(***************************************************************************)
RECURSIVE Join(_, _)
Join(parts, sep) ==
    IF Len(parts) = 0 THEN << >>
    ELSE IF Len(parts) = 1 THEN parts[1]
    ELSE parts[1] \o sep \o Join(Tail(parts), sep)

WiredFragment    == <<"is_wired", "=", "1">>
WirelessFragment == <<"is_wired", "=", "0">>
BlockedFragment  == <<"blocked", "=", "1">>
\* fmt.Sprintf("ap_mac = '%s'", filterAP)
APFragment(ap)   == <<"ap_mac", "=", "'">> \o ap \o <<"'">>
\* Fault variant of SQLFragment: the parentheses are left out.
SQLFragmentBare(sql) == sql
\* fmt.Sprintf("(%s)", filterSQL)
SQLFragment(sql) == <<"(">> \o sql \o <<")">>

\* Fault variant of Conditions: the test of the blocked flag is inverted.
ConditionsBlockedInverted(wired, wireless, blocked, ap, sql) ==
    (IF wired THEN <<WiredFragment>> ELSE << >>) \o
    (IF wireless THEN <<WirelessFragment>> ELSE << >>) \o
    (IF ~blocked THEN <<BlockedFragment>> ELSE << >>) \o
    (IF ap # << >> THEN <<APFragment(ap)>> ELSE << >>) \o
    (IF sql # << >> THEN <<SQLFragment(sql)>> ELSE << >>)

Conditions(wired, wireless, blocked, ap, sql) ==
    (IF wired THEN <<WiredFragment>> ELSE << >>) \o
    (IF wireless THEN <<WirelessFragment>> ELSE << >>) \o
    (IF blocked THEN <<BlockedFragment>> ELSE << >>) \o
    (IF ap # << >> THEN <<APFragment(ap)>> ELSE << >>) \o
    (IF sql # << >> THEN <<SQLFragment(sql)>> ELSE << >>)

MutexMsg == "--wired and --wireless are mutually exclusive"

\* Fault variant of buildWhereClause: the flags are not validated.
buildWhereClauseUnchecked(wired, wireless, blocked, ap, sql) ==
    [err |-> "",
     clause |-> Join(Conditions(wired, wireless, blocked, ap, sql), <<"AND">>)]

buildWhereClause(wired, wireless, blocked, ap, sql) ==
    IF wired /\ wireless
    THEN [err |-> MutexMsg, clause |-> << >>]
    ELSE [err |-> "",
          clause |-> Join(Conditions(wired, wireless, blocked, ap, sql), <<"AND">>)]

(***************************************************************************)
(* Inputs of the model.                                                    *)
(***************************************************************************)
\* Values of --ap: none, a plain value, a value holding quote atoms.
APValues ==
    { << >>,
      <<"a">>,
      <<"x", "'", "OR", "'", "1", "'", "=", "'", "1">> }

\* Values of --filter.
FilterTexts ==
    { << >>,
      <<"signal", ">=", "-60">>,
      <<"is_wired", "=", "1", "OR", "blocked", "=", "1">>,
      <<"signal", "<", "-70">>,
      <<"invalid_field", "=", "123">>,
      <<"INVALID", "SQL", "HERE">>,
      <<"signal", "=", "'", "abc", "'">>,
      <<"data", "LIKE", "'", "%", "m1", "%", "'">>,
      <<"(", "signal", "<", "0">>,
      <<"signal", ">=">>,
      <<"signal", "#", "0">>,
      <<"signal", "<", "0", ")", "OR", "(", "1", "=", "1">> }

Formats == {"table", "json", "xml"}

\* Where clauses handed to NewFilter directly.
Clauses ==
    { <<"1", "=", "1">>,
      <<"is_wired", "=", "0", "AND", "signal", ">=", "-60">>,
      <<"ap_mac", "=", "'", "a", "'", "OR", "blocked", "=", "1">>,
      <<"signal", "<", "-70">>,
      <<"invalid_field", "=", "123">>,
      <<"1", "=", "1", "OR", "invalid_field", "=", "123">>,
      <<"INVALID", "SQL", "HERE">>,
      <<"(", "signal", "<", "0">>,
      <<"signal", ">=">>,
      <<"signal", "#", "0">>,
      <<"signal", "=", "'", "abc", "'">>,
      <<"signal", "<", "'", "abc", "'">>,
      <<"data", "LIKE", "'", "%", "m1", "%", "'">>,
      <<"1", "=", "1", "ORDER", "BY", "signal">>,
      <<"use_fixed_ip", "=", "1">>,
      <<"hostname", "=", "'", "a", "'">>,
      <<"signal", "=", "NULL">> }

\* Where clauses that exercise the operators of the predicate language.
OperatorClauses ==
    { <<"signal", "BETWEEN", "-60", "AND", "-50">>,
      <<"signal", "BETWEEN", "-61", "AND", "-61">>,
      <<"signal", "BETWEEN", "-70", "AND", "-49">>,
      <<"signal", "BETWEEN", "-50", "AND", "-60">>,
      <<"ap_mac", "IN", "(", "'", "a", "'", ",", "'", "x", "'", ")">>,
      <<"ap_mac", "IN", "(", "'", "a", "b", "'", ")">>,
      <<"mac", "IN", "(", "'", "m1", "'", ",", "'", "m3", "'", ")">>,
      <<"signal", "IN", "(", "-60", ",", "-50", ")">>,
      <<"is_wired", "=", "1">>,
      <<"is_wired", "=", "0">>,
      <<"blocked", "=", "1">>,
      <<"blocked", "=", "0">>,
      <<"mac", "LIKE", "'", "M1", "'">>,
      <<"ap_mac", "LIKE", "'", "a", "%", "'">>,
      <<"ap_mac", "LIKE", "'", "%", "B", "'">>,
      <<"ap_mac", "LIKE", "'", "a", "_", "'">>,
      <<"ap_mac", "LIKE", "'", "%", "'">>,
      <<"is_wired", "=", "1", "OR", "blocked", "=", "1", "AND",
        "signal", "<", "-55">>,
      <<"(", "is_wired", "=", "1", "OR", "blocked", "=", "1", ")", "AND",
        "signal", "<", "-55">>,
      <<"NOT", "is_wired", "=", "1", "AND", "blocked", "=", "1">> }

(***************************************************************************)
(* Package config: the settings store (viper) holds host and api_key, Get  *)
(* builds the Config from it on first use and keeps it in cfg.             *)
(***************************************************************************)
Hosts   == {"", "h1", "h2"}
APIKeys == {"", "k1", "k2"}

Store(host, key) == [host |-> host, api_key |-> key]

Config(host, key) == [set |-> TRUE, Host |-> host, APIKey |-> key]
NilConfig         == [set |-> FALSE, Host |-> "", APIKey |-> ""]

\* Fault variant of Get: the store is read on every call.
GetRereads(c, store) == Config(store.host, store.api_key)

\* Get: the value of cfg after the call, which is also what is returned.
Get(c, store) == IF ~c.set THEN Config(store.host, store.api_key) ELSE c

HostRequired   == "host is required"
APIKeyRequired == "API key is required"

\* Fault variant of Validate: the API key is looked at first.
ValidateKeyFirst(c) ==
    IF c.APIKey = "" THEN APIKeyRequired
    ELSE IF c.Host = "" THEN HostRequired
    ELSE ""

Validate(c) ==
    IF c.Host = "" THEN HostRequired
    ELSE IF c.APIKey = "" THEN APIKeyRequired
    ELSE ""

(***************************************************************************)
(* State.                                                                  *)
(***************************************************************************)
VARIABLES
    filterWired, filterWireless, filterBlocked,  \* the flags of clients list
    filterAP, filterSQL, outputFormat,
    response,          \* what the controller answers to the request
    pc,                \* the statement runClientsList is at
    requests,          \* requests sent to the controller so far
    clients,           \* the retrieved collection
    whereClause,       \* the clause built from the flags
    filteredClients,   \* the collection after filtering
    cmdErr,            \* the error runClientsList returns, "" for nil
    cmdCause,          \* the error wrapped inside cmdErr with %w, "" for none
    rendered,          \* what was handed to a renderer
    db, fWhere,        \* the Filter: its database and its whereClause
    applyIn, applyOut, applyErr,   \* argument and results of the last Apply
    nApply,            \* Apply calls made on the Filter
    fault,             \* the failure of the database met in this run
    exitStatus,        \* the status the process exited with, -1 while it runs
    viper,             \* the settings store
    cfg,               \* the package variable cfg of config
    gets, lastGet,     \* calls of config.Get so far, and what the last returned
    apiClient          \* host and API key the API client was made with

cliFlags   == <<filterWired, filterWireless, filterBlocked, filterAP,
                filterSQL, outputFormat, response>>
configVars == <<viper, cfg, gets, lastGet, apiClient>>
flagVars   == <<cliFlags, configVars>>
cmdVars    == <<pc, requests, clients, whereClause, filteredClients, cmdErr,
                cmdCause, rendered, exitStatus>>
filterVars == <<db, fWhere, applyIn, applyOut, applyErr, nApply, fault>>
vars       == <<flagVars, cmdVars, filterVars>>

NothingRendered == [kind |-> "none", clients |-> << >>]

\* Values of the process left alone by the filter package, and the
\* configuration as it stands once PersistentPreRunE has passed.
InitCommon ==
    /\ exitStatus = -1
    /\ viper = Store("h1", "k1")
    /\ cfg = Config("h1", "k1")
    /\ gets = 1
    /\ lastGet = Config("h1", "k1")
    /\ apiClient = [host |-> "h1", key |-> "k1"]
    /\ requests = 0
    /\ clients = << >>
    /\ whereClause = << >>
    /\ filteredClients = << >>
    /\ cmdErr = ""
    /\ cmdCause = ""
    /\ rendered = NothingRendered
    /\ db = NoDB
    /\ fWhere = << >>
    /\ applyIn = << >>
    /\ applyOut = << >>
    /\ applyErr = ""
    /\ nApply = 0
    /\ fault = NoFault

\* The command: flags parsed, runClientsList about to start.
Init ==
    /\ filterWired \in BOOLEAN
    /\ filterWireless \in BOOLEAN
    /\ filterBlocked \in BOOLEAN
    /\ filterAP \in APValues
    /\ filterSQL \in FilterTexts
    /\ outputFormat \in Formats
    /\ response \in Responses
    /\ pc = "ListClients"
    /\ InitCommon

(***************************************************************************)
(* Execute of cmd/root.go: when the command returns an error it is printed *)
(* and the process exits with status 1; otherwise main returns, status 0.  *)
(* It is the closing part of whichever step makes the command return.      *)
(***************************************************************************)
ExitStatus(err) == IF err # "" THEN 1 ELSE 0

Execute == exitStatus' = IF pc' = "done" THEN ExitStatus(cmdErr') ELSE exitStatus

(***************************************************************************)
(* runClientsList, one action per call it makes.                           *)
(***************************************************************************)
\* clients, err := apiClient.ListClients()
CmdListClients ==
    /\ pc = "ListClients"
    /\ LET r == ListClients(response)
       IN  /\ requests' = requests + 1
           /\ clients' = r.clients
           /\ cmdCause' = r.err
           /\ IF r.err # ""
              THEN /\ cmdErr' = "failed to list clients"
                   /\ pc' = "done"
              ELSE /\ cmdErr' = ""
                   /\ pc' = "buildWhereClause"
    /\ UNCHANGED <<flagVars, whereClause, filteredClients, rendered, filterVars>>
    /\ Execute

\* whereClause, err := buildWhereClause(); filteredClients := clients
CmdBuildWhereClause ==
    /\ pc = "buildWhereClause"
    /\ LET r == buildWhereClause(filterWired, filterWireless, filterBlocked,
                                 filterAP, filterSQL)
       IN  /\ whereClause' = r.clause
           /\ IF r.err # ""
              THEN /\ cmdErr' = r.err
                   /\ pc' = "done"
                   /\ UNCHANGED filteredClients
              ELSE /\ cmdErr' = ""
                   /\ filteredClients' = clients
                   /\ pc' = IF r.clause # << >> THEN "NewFilter" ELSE "output"
    /\ UNCHANGED <<flagVars, requests, clients, cmdCause, rendered, filterVars>>
    /\ Execute

\* Fault variant of CmdNewFilter: NewFilter compiles the clause and rejects
\* one that does not compile.
CmdNewFilterChecksClause ==
    /\ pc = "NewFilter"
    /\ \E f \in {NoFault} \cup NewFilterFaults :
          LET r == IF Prepare(whereClause).ok THEN NewFilterDB(f)
                   ELSE [err |-> "failed to create schema",
                         db  |-> [state |-> "closed", rows |-> << >>]]
          IN  /\ fault' = IF Prepare(whereClause).ok THEN f ELSE NoFault
              /\ db' = r.db
              /\ cmdCause' = r.err
              /\ IF r.err # ""
                 THEN /\ cmdErr' = "failed to create filter"
                      /\ pc' = "done"
                      /\ UNCHANGED fWhere
                 ELSE /\ cmdErr' = ""
                      /\ fWhere' = whereClause
                      /\ pc' = "Apply"
    /\ UNCHANGED <<flagVars, requests, clients, whereClause, filteredClients,
                   rendered, applyIn, applyOut, applyErr, nApply>>
    /\ Execute

\* filterEngine, err := filter.NewFilter(whereClause)
CmdNewFilter ==
    /\ pc = "NewFilter"
    /\ \E f \in {NoFault} \cup NewFilterFaults :
          LET r == NewFilterDB(f)
          IN  /\ fault' = f
              /\ db' = r.db
              /\ cmdCause' = r.err
              /\ IF r.err # ""
                 THEN /\ cmdErr' = "failed to create filter"
                      /\ pc' = "done"
                      /\ UNCHANGED fWhere
                 ELSE /\ cmdErr' = ""
                      /\ fWhere' = whereClause
                      /\ pc' = "Apply"
    /\ UNCHANGED <<flagVars, requests, clients, whereClause, filteredClients,
                   rendered, applyIn, applyOut, applyErr, nApply>>
    /\ Execute

\* Fault variant of CmdApply: the error of Apply is returned as it is.
CmdApplyUnwrapped ==
    /\ pc = "Apply"
    /\ LET Returned(r) ==
               /\ db' = r.db
               /\ applyIn' = clients
               /\ applyOut' = r.result
               /\ applyErr' = r.err
               /\ nApply' = nApply + 1
               /\ filteredClients' = r.result
               /\ cmdCause' = ""
               /\ cmdErr' = r.err
               /\ pc' = IF r.err # "" THEN "Close" ELSE "output"
       IN  \E f \in {NoFault} \cup ApplyFaults :
               /\ fault' = f
               /\ Returned(Apply(db, fWhere, clients, f))
    /\ UNCHANGED <<flagVars, requests, clients, whereClause, rendered, fWhere>>
    /\ Execute

\* Fault variant of CmdApply: an error of Apply is only a warning, and the
\* command goes on with the collection as it was retrieved.
CmdApplyWarns ==
    /\ pc = "Apply"
    /\ LET Returned(r) ==
               /\ db' = r.db
               /\ applyIn' = clients
               /\ applyOut' = r.result
               /\ applyErr' = r.err
               /\ nApply' = nApply + 1
               /\ filteredClients' = IF r.err # "" THEN clients ELSE r.result
               /\ cmdCause' = ""
               /\ cmdErr' = ""
               /\ pc' = "output"
       IN  \E f \in {NoFault} \cup ApplyFaults :
               /\ fault' = f
               /\ Returned(Apply(db, fWhere, clients, f))
    /\ UNCHANGED <<flagVars, requests, clients, whereClause, rendered, fWhere>>
    /\ Execute

\* filteredClients, err = filterEngine.Apply(clients)
CmdApply ==
    /\ pc = "Apply"
    /\ LET Returned(r) ==
               /\ db' = r.db
               /\ applyIn' = clients
               /\ applyOut' = r.result
               /\ applyErr' = r.err
               /\ nApply' = nApply + 1
               /\ filteredClients' = r.result
               /\ cmdCause' = r.err
               /\ IF r.err # ""
                  THEN /\ cmdErr' = "failed to apply filter"
                       /\ pc' = "Close"
                  ELSE /\ cmdErr' = ""
                       /\ pc' = "output"
       IN  \E f \in {NoFault} \cup ApplyFaults :
               /\ fault' = f
               /\ Returned(Apply(db, fWhere, clients, f))
    /\ UNCHANGED <<flagVars, requests, clients, whereClause, rendered, fWhere>>
    /\ Execute

\* Fault variant of CmdOutput: the Filter is closed by no deferred call, the
\* command returns with the database open.
CmdOutputLeaks ==
    /\ pc = "output"
    /\ IF Len(filteredClients) = 0
       THEN /\ rendered' = [kind |-> "nomatch", clients |-> << >>]
            /\ cmdErr' = ""
       ELSE IF outputFormat \in {"json", "table"}
       THEN /\ rendered' = [kind |-> outputFormat, clients |-> filteredClients]
            /\ cmdErr' = ""
       ELSE /\ rendered' = rendered
            /\ cmdErr' = "invalid output format"
    /\ cmdCause' = ""
    /\ pc' = "done"
    /\ UNCHANGED <<flagVars, requests, clients, whereClause, filteredClients,
                   filterVars>>
    /\ Execute

\* Fault variant of CmdOutput: the format is checked before the empty check.
CmdOutputFormatFirst ==
    /\ pc = "output"
    /\ IF outputFormat \notin {"json", "table"}
       THEN /\ rendered' = rendered
            /\ cmdErr' = "invalid output format"
       ELSE IF Len(filteredClients) = 0
       THEN /\ rendered' = [kind |-> "nomatch", clients |-> << >>]
            /\ cmdErr' = ""
       ELSE /\ rendered' = [kind |-> outputFormat, clients |-> filteredClients]
            /\ cmdErr' = ""
    /\ cmdCause' = ""
    /\ pc' = IF db.state = "open" THEN "Close" ELSE "done"
    /\ UNCHANGED <<flagVars, requests, clients, whereClause, filteredClients,
                   filterVars>>
    /\ Execute

\* The empty check and the switch on outputFormat.
CmdOutput ==
    /\ pc = "output"
    /\ IF Len(filteredClients) = 0
       THEN /\ rendered' = [kind |-> "nomatch", clients |-> << >>]
            /\ cmdErr' = ""
       ELSE IF outputFormat \in {"json", "table"}
       THEN /\ rendered' = [kind |-> outputFormat, clients |-> filteredClients]
            /\ cmdErr' = ""
       ELSE /\ rendered' = rendered
            /\ cmdErr' = "invalid output format"
    /\ cmdCause' = ""
    /\ pc' = IF db.state = "open" THEN "Close" ELSE "done"
    /\ UNCHANGED <<flagVars, requests, clients, whereClause, filteredClients,
                   filterVars>>
    /\ Execute

\* defer filterEngine.Close()
CmdClose ==
    /\ pc = "Close"
    /\ db' = [db EXCEPT !.state = "closed"]
    /\ pc' = "done"
    /\ UNCHANGED <<flagVars, requests, clients, whereClause, filteredClients,
                   cmdErr, cmdCause, rendered, fWhere, applyIn, applyOut,
                   applyErr, nApply, fault>>
    /\ Execute

Next ==
    \/ CmdListClients
    \/ CmdBuildWhereClause
    \/ CmdNewFilter
    \/ CmdApply
    \/ CmdOutput
    \/ CmdClose

Spec == Init /\ [][Next]_vars

(***************************************************************************)
(* The start of a process: the settings are in the store, the root         *)
(* command runs PersistentPreRunE and then the body of the command, which  *)
(* gets the Config, makes the API client from it and sends its request.    *)
(* The store may be changed at any moment, and any code may call Get.      *)
(***************************************************************************)
ConfigInit ==
    /\ filterWired = FALSE
    /\ filterWireless = FALSE
    /\ filterBlocked = FALSE
    /\ filterAP = << >>
    /\ filterSQL = << >>
    /\ outputFormat = "table"
    /\ response = OkResponse(<< >>)
    /\ pc = "PersistentPreRunE"
    /\ exitStatus = -1
    /\ viper \in { Store(h, k) : h \in Hosts, k \in APIKeys }
    /\ cfg = NilConfig
    /\ gets = 0
    /\ lastGet = NilConfig
    /\ apiClient = [host |-> "", key |-> ""]
    /\ requests = 0
    /\ clients = << >>
    /\ whereClause = << >>
    /\ filteredClients = << >>
    /\ cmdErr = ""
    /\ cmdCause = ""
    /\ rendered = NothingRendered
    /\ db = NoDB
    /\ fWhere = << >>
    /\ applyIn = << >>
    /\ applyOut = << >>
    /\ applyErr = ""
    /\ nApply = 0
    /\ fault = NoFault

commandVars == <<clients, whereClause, filteredClients, cmdCause, rendered>>

\* A call of config.Get.
CallGet ==
    /\ cfg' = Get(cfg, viper)
    /\ lastGet' = cfg'
    /\ gets' = gets + 1

\* viper.Set, or a flag or environment variable taking effect.
ViperSet(host, key) ==
    /\ viper # Store(host, key)
    /\ viper' = Store(host, key)
    /\ UNCHANGED <<cliFlags, cfg, gets, lastGet, apiClient, cmdVars, filterVars>>

\* Get called by any code of the process.
ConfigGet ==
    /\ gets < MaxGets
    /\ CallGet
    /\ UNCHANGED <<cliFlags, viper, apiClient, cmdVars, filterVars>>

\* PersistentPreRunE: return config.Validate()
PersistentPreRunE ==
    /\ pc = "PersistentPreRunE"
    /\ CallGet
    /\ cmdErr' = Validate(cfg')
    /\ pc' = IF cmdErr' # "" THEN "done" ELSE "Run"
    /\ UNCHANGED <<cliFlags, viper, apiClient, requests, commandVars, filterVars>>
    /\ Execute

\* The body of the command up to its request to the controller.
RunCommand ==
    /\ pc = "Run"
    /\ CallGet
    /\ apiClient' = [host |-> cfg'.Host, key |-> cfg'.APIKey]
    /\ requests' = requests + 1
    /\ pc' = "done"
    /\ UNCHANGED <<cliFlags, viper, cmdErr, commandVars, filterVars>>
    /\ Execute

ConfigNext ==
    \/ \E h \in Hosts, k \in APIKeys : ViperSet(h, k)
    \/ ConfigGet
    \/ PersistentPreRunE
    \/ RunCommand

ConfigSpec == ConfigInit /\ [][ConfigNext]_vars

(***************************************************************************)
(* The filter package used on its own: a Filter is created from a clause,  *)
(* applied to collections and closed; the in-memory database works.        *)
(***************************************************************************)
FilterInit ==
    /\ filterWired = FALSE
    /\ filterWireless = FALSE
    /\ filterBlocked = FALSE
    /\ filterAP = << >>
    /\ filterSQL = << >>
    /\ outputFormat = "table"
    /\ response = OkResponse(<< >>)
    /\ pc = "library"
    /\ InitCommon

NewFilter(w) ==
    /\ pc = "library"
    /\ db.state = "none"
    /\ db' = OpenDB
    /\ fWhere' = w
    /\ UNCHANGED <<flagVars, cmdVars, applyIn, applyOut, applyErr, nApply, fault>>

FilterApply(R) ==
    /\ pc = "library"
    /\ db.state # "none"
    /\ nApply < MaxApplies
    /\ LET Returned(r) ==
               /\ db' = r.db
               /\ applyIn' = R
               /\ applyOut' = r.result
               /\ applyErr' = r.err
               /\ nApply' = nApply + 1
       IN  Returned(Apply(db, fWhere, R, NoFault))
    /\ UNCHANGED <<flagVars, cmdVars, fWhere, fault>>

FilterClose ==
    /\ pc = "library"
    /\ db.state = "open"
    /\ db' = [db EXCEPT !.state = "closed"]
    /\ UNCHANGED <<flagVars, cmdVars, fWhere, applyIn, applyOut, applyErr, nApply,
                   fault>>

FilterNext ==
    \/ \E w \in Clauses \cup OperatorClauses : NewFilter(w)
    \/ \E R \in Collections : FilterApply(R)
    \/ FilterClose

FilterSpec == FilterInit /\ [][FilterNext]_vars

(***************************************************************************)
(* Properties.                                                             *)
(***************************************************************************)
RECURSIVE IsSubseqFrom(_, _, _, _)
IsSubseqFrom(a, i, b, j) ==
    IF i > Len(a) THEN TRUE
    ELSE IF j > Len(b) THEN FALSE
    ELSE IF a[i] = b[j] THEN IsSubseqFrom(a, i + 1, b, j + 1)
    ELSE IsSubseqFrom(a, i, b, j + 1)

\* a can be obtained from b by deleting elements.
IsSubseq(a, b) == IsSubseqFrom(a, 1, b, 1)

\* The clause is one boolean expression, with no ORDER BY term after it.
ExpressionOnly(st) == st.ok /\ ~st.ordered
IsPredicate(w) == ExpressionOnly(Prepare(w))

\* buildWhereClause has returned in this run.
Built == pc \notin {"ListClients", "buildWhereClause", "library"}
         /\ cmdErr # "failed to list clients"

\* The database itself did not fail in this run.
Sound == fault = NoFault

NoFilterFlags ==
    /\ ~filterWired /\ ~filterWireless /\ ~filterBlocked
    /\ filterAP = << >> /\ filterSQL = << >>

\* C1: when the first Apply on a new Filter succeeds for a predicate, its
\* result is a subsequence of its argument: only records of the input, in
\* the input's order, none more often than in the input.
C1_ResultIsSubsequence ==
    (pc = "library" /\ nApply = 1 /\ applyErr = "" /\ IsPredicate(fWhere))
        => IsSubseq(applyOut, applyIn)

C1_Witness ==
    /\ pc = "library" /\ nApply = 1 /\ applyErr = "" /\ IsPredicate(fWhere)
    /\ Len(applyIn) = 2 /\ applyIn[1] # applyIn[2]
    /\ applyOut = <<applyIn[2]>>

\* C2: with no convenience flag and empty --ap and --filter, the clause is
\* empty and no error is returned, no Filter is ever constructed, and what
\* reaches a renderer is the retrieved collection itself.
C2_EmptyClauseIsIdentity ==
    NoFilterFlags =>
        /\ db = NoDB /\ nApply = 0
        /\ Built => /\ whereClause = << >>
                    /\ cmdErr # MutexMsg
                    /\ filteredClients = clients
        /\ rendered.kind \in {"table", "json"} => rendered.clients = clients

C2_Witness ==
    /\ NoFilterFlags /\ pc = "done"
    /\ rendered.kind = "table" /\ Len(rendered.clients) = 2
    /\ rendered.clients[1] # rendered.clients[2]

\* C3: once buildWhereClause has returned, it has returned the mutual
\* exclusion error exactly when both wired and wireless are set, whatever
\* the other flags, and then the clause is empty.
C3_MutualExclusion ==
    Built =>
        /\ (filterWired /\ filterWireless) <=> (cmdErr = MutexMsg)
        /\ (filterWired /\ filterWireless) => (whereClause = << >> /\ pc = "done")

C3_Witness ==
    /\ Built /\ filterWired /\ filterWireless /\ filterBlocked
    /\ filterAP # << >> /\ filterSQL # << >>
    /\ cmdErr = MutexMsg

\* C4: the mutual exclusion error is reported before any retrieval: a run
\* that ends with it has sent no request, and a run with both flags set
\* ends with it whatever the controller answers.
C4_MutexBeforeRetrieval ==
    /\ cmdErr = MutexMsg => requests = 0
    /\ (pc = "done" /\ filterWired /\ filterWireless) => cmdErr = MutexMsg

\* A record satisfies the free-text predicate taken alone.
SatisfiesText(c, text) == Len(Query(<<Marshal(c)>>, text).docs) = 1

\* A record satisfies every active fragment, each taken alone.
SatisfiesAll(c) ==
    /\ filterWired => c.is_wired
    /\ filterWireless => ~c.is_wired
    /\ filterBlocked => c.blocked
    /\ filterAP # << >> => c.ap_mac = filterAP
    /\ filterSQL # << >> => SatisfiesText(c, filterSQL)

\* C5: for flags that are not mutually exclusive and a free text that is a
\* predicate, filtering with the combined clause returns exactly the input
\* records that satisfy every active fragment taken alone (the database
\* itself not failing).
C5_ClauseIsConjunction ==
    (pc = "done" /\ nApply = 1 /\ Sound
     /\ (filterSQL # << >> => IsPredicate(filterSQL)))
        => /\ applyErr = ""
           /\ applyOut = SelectSeq(clients, SatisfiesAll)

\* The clause as the flag table describes it: the fragments of the active
\* inputs in the order wired-or-wireless, blocked, access point, free text.
Glue(a, b) == IF a = << >> THEN b
              ELSE IF b = << >> THEN a
              ELSE a \o <<"AND">> \o b

DescribedClause ==
    LET link == IF filterWired THEN <<"is_wired", "=", "1">>
                ELSE IF filterWireless THEN <<"is_wired", "=", "0">>
                ELSE << >>
        blk  == IF filterBlocked THEN <<"blocked", "=", "1">> ELSE << >>
        ap   == IF filterAP # << >>
                THEN <<"ap_mac", "=", "'">> \o filterAP \o <<"'">> ELSE << >>
        txt  == IF filterSQL # << >>
                THEN <<"(">> \o filterSQL \o <<")">> ELSE << >>
    IN  Glue(link, Glue(blk, Glue(ap, txt)))

\* C6: the built clause is the fragments of the active inputs in the fixed
\* order, joined by AND, the free text last and inside one pair of
\* parentheses.
C6_ClauseShape ==
    (Built /\ cmdErr # MutexMsg) =>
        /\ whereClause = DescribedClause
        /\ filterSQL # << >> =>
              SubSeq(whereClause, Len(whereClause) - Len(filterSQL) - 1,
                     Len(whereClause)) = <<"(">> \o filterSQL \o <<")">>

C6_Witness ==
    /\ Built /\ filterWired /\ filterBlocked
    /\ filterAP = <<"a">> /\ Len(filterSQL) = 3
    /\ Len(whereClause) = 19

\* C7: whatever the --ap value, its fragment is the column, the equals sign
\* and one string literal whose content is the value, and a filter on --ap
\* alone returns exactly the records whose ap_mac is the value (the database
\* itself not failing).
C7_APValueIsOneLiteral ==
    LET OnlyAP == /\ ~filterWired /\ ~filterWireless /\ ~filterBlocked
                  /\ filterSQL = << >>
        HasAP(c) == c.ap_mac = filterAP
        OneLiteral(lx) == /\ lx.ok /\ Len(lx.toks) = 3
                          /\ lx.toks[3].k = "str" /\ lx.toks[3].t = filterAP
    IN  (Built /\ filterAP # << >>) =>
            /\ OneLiteral(Lex(APFragment(filterAP)))
            /\ (pc = "done" /\ OnlyAP /\ Sound) =>
                   (applyErr = "" /\ applyOut = SelectSeq(clients, HasAP))

\* The bare names a text mentions.
NamesIn(toks) == { toks[i].s : i \in { j \in 1..Len(toks) : toks[j].k = "id" } }
BareNames(text) == NamesIn(Lex(text).toks)

\* C8: Apply fails whenever the clause mentions a name that is not one of
\* the filterable client fields.
C8_UnknownNameFails ==
    (pc = "library" /\ nApply >= 1 /\ BareNames(fWhere) \ FieldColumns # {})
        => applyErr # ""

\* The text taken alone is not an expression of the grammar.
Malformed(text) == ~ParseStatement(Tokens(Lex(text))).ok

\* C9: a run whose free-text predicate is given and malformed ends with the
\* filter error and hands nothing to a renderer (the database itself not
\* failing).
C9_MalformedTextFails ==
    (pc = "done" /\ Built /\ cmdErr # MutexMsg /\ Sound
     /\ filterSQL # << >> /\ Malformed(filterSQL))
        => /\ cmdErr = "failed to apply filter"
           /\ rendered.kind = "none"

\* An integer-valued column compared with a string literal that is not a
\* number.
IntColumns == {"signal", "is_wired", "blocked"}
CompareOps == {"eq", "ne", "lt", "le", "gt", "ge"}
NonNumeric(t) == ~(Len(t) = 1 /\ t[1] \in Numerals)

RECURSIVE HasTypeMismatch(_)
HasTypeMismatch(ast) ==
    \/ /\ ast.op \in CompareOps
       /\ \E i, j \in 1..2 :
             /\ ast.kids[i].op = "col" /\ ast.kids[i].s \in IntColumns
             /\ ast.kids[j].op = "str" /\ NonNumeric(ast.kids[j].t)
    \/ \E i \in 1..Len(ast.kids) : HasTypeMismatch(ast.kids[i])

\* C10: Apply fails whenever the predicate compares an integer field with a
\* string literal that is not a number.
C10_TypeMismatchFails ==
    (pc = "library" /\ nApply >= 1 /\ IsPredicate(fWhere)
     /\ HasTypeMismatch(Prepare(fWhere).where))
        => applyErr # ""

\* No record of the collection satisfies the clause taken as a predicate.
NoneSatisfies(R, w) == \A i \in 1..Len(R) : ~SatisfiesText(R[i], w)

\* C11: when the clause is a well-formed predicate that no retrieved record
\* satisfies and the database itself does not fail, Apply returns a
\* zero-length result and no error, and the command ends without an error,
\* having reported that nothing matched.
C11_EmptyResultIsNotAnError ==
    (pc = "done" /\ nApply = 1 /\ Sound /\ IsPredicate(whereClause)
     /\ NoneSatisfies(clients, whereClause))
        => /\ applyErr = "" /\ applyOut = << >>
           /\ cmdErr = "" /\ rendered.kind = "nomatch"

C11_Witness ==
    /\ pc = "done" /\ nApply = 1 /\ Sound /\ IsPredicate(whereClause)
    /\ Len(clients) = 2 /\ NoneSatisfies(clients, whereClause)
    /\ applyErr = "" /\ applyOut = << >> /\ rendered.kind = "nomatch"

\* C12: whenever Apply returns an error, whatever the failure, the result
\* returned with it holds no record.
C12_AllOrNothing ==
    (nApply >= 1 /\ applyErr # "") => applyOut = << >>

\* What Apply returns for the clause and the collection alone, on a Filter
\* that has been applied to nothing before.
FreshApply(w, R) == Apply(OpenDB, w, R, NoFault)

\* C13: every Apply on an open Filter, the first or a later one, returns
\* what the clause and the collection passed to that call determine alone:
\* the same error and the same records as on a Filter applied to nothing
\* before.
C13_ApplyKeepsNoState ==
    LET Same(r) == applyErr = r.err /\ applyOut = r.result
    IN  (pc = "library" /\ nApply >= 1 /\ db.state = "open")
            => Same(FreshApply(fWhere, applyIn))

\* The field names the record model lists as filterable.
ListedFields ==
    {"mac", "name", "hostname", "ip", "essid", "ap_mac", "sw_mac",
     "is_wired", "blocked", "use_fixed_ip", "qos_policy_applied",
     "signal", "uptime", "tx_rate", "rx_rate", "channel", "rssi",
     "satisfaction", "sw_port",
     "tx_bytes", "rx_bytes", "tx_bytes_r", "rx_bytes_r"}

BoolFields == {"is_wired", "blocked", "use_fixed_ip"}

\* The one Apply made so far was made on a new Filter before its Close (in
\* the library the transaction fails to begin only on a closed Filter).
FirstApply ==
    pc = "library" /\ nApply = 1 /\ applyErr # "failed to begin transaction"

\* C14: a first Apply whose clause is well formed and names only listed
\* fields returns no unknown-field error, and for a clause "field = 1" on a
\* boolean field it returns exactly the records whose own value of the
\* field is true.
C14_ListedFieldsResolve ==
    LET IsSet(c) == c[fWhere[1]]
    IN  (FirstApply /\ ~Malformed(fWhere)
         /\ BareNames(fWhere) # {} /\ BareNames(fWhere) \subseteq ListedFields)
            => /\ applyErr = ""
               /\ (Len(fWhere) = 3 /\ fWhere[1] \in BoolFields
                   /\ fWhere[2] = "=" /\ fWhere[3] = "1")
                      => applyOut = SelectSeq(applyIn, IsSet)

\* The clause is "signal BETWEEN a AND b" for two numerals a, b.
IsBetween(w) ==
    /\ Len(w) = 5 /\ w[1] = "signal" /\ w[2] = "BETWEEN" /\ w[4] = "AND"
    /\ w[3] \in Numerals /\ w[5] \in Numerals

\* C15: a first Apply with "signal BETWEEN a AND b", a <= b, returns
\* without error exactly the records whose signal s has a <= s and s <= b,
\* both bounds included.
C15_BetweenIsInclusive ==
    LET Within(c) == /\ NumeralValue(fWhere[3]) <= c.signal
                     /\ c.signal <= NumeralValue(fWhere[5])
    IN  (FirstApply /\ IsBetween(fWhere)
         /\ NumeralValue(fWhere[3]) <= NumeralValue(fWhere[5]))
            => applyErr = "" /\ applyOut = SelectSeq(applyIn, Within)

C15_Witness ==
    /\ FirstApply /\ fWhere = <<"signal", "BETWEEN", "-60", "AND", "-50">>
    /\ Len(applyIn) = 2
    /\ {applyIn[1].signal, applyIn[2].signal} \in {{-60, -61}, {-50, -49}}
    /\ Len(applyOut) = 1 /\ applyOut[1].signal \in {-60, -50}

StringFields == {"mac", "ap_mac"}

\* The clause is "field IN (literal, ..., literal)".
IsInList(w) ==
    /\ Len(w) >= 5 /\ w[1] \in StringFields \cup {"signal"}
    /\ w[2] = "IN" /\ w[3] = "(" /\ ~Malformed(w)

IsLiteral(tk) == tk.k \in {"str", "num"}
LiteralText(tk) == IF tk.k = "str" THEN <<"'">> \o tk.t \o <<"'">> ELSE <<tk.s>>

\* "field = v1 OR ... OR field = vn" for the literals among the tokens.
EqualityChain(field, toks) ==
    LET lits == SelectSeq(toks, IsLiteral)
    IN  Join([i \in 1..Len(lits) |-> <<field, "=">> \o LiteralText(lits[i])],
             <<"OR">>)

\* C16: a first Apply with "field IN (v1, ..., vn)" returns without error
\* exactly the records whose value of the field equals one of the listed
\* literals, which is what "field = v1 OR ... OR field = vn" returns.
C16_InIsExactMembership ==
    LET Body(field, toks) ==
            LET Listed(c) ==
                    \E i \in 1..Len(toks) :
                        \/ /\ toks[i].k = "str" /\ field \in StringFields
                           /\ toks[i].t = c[field]
                        \/ /\ toks[i].k = "num" /\ field = "signal"
                           /\ toks[i].n = c.signal
            IN  /\ applyErr = ""
                /\ applyOut = SelectSeq(applyIn, Listed)
                /\ applyOut = FreshApply(EqualityChain(field, toks), applyIn).result
    IN  (FirstApply /\ IsInList(fWhere)) => Body(fWhere[1], Lex(fWhere).toks)

\* A value that contains the listed literal, and one the literal contains,
\* are both left out.
C16_Witness ==
    /\ FirstApply /\ IsInList(fWhere) /\ fWhere[1] = "ap_mac" /\ Len(fWhere) = 11
    /\ Len(applyIn) = 2
    /\ applyIn[1].ap_mac = <<"a", "b">> /\ applyIn[2].ap_mac = <<"a">>
    /\ applyOut = <<applyIn[2]>>

\* The clause is "field = 0" or "field = 1" on is_wired or blocked.
IsBoolTest(w) ==
    /\ Len(w) = 3 /\ w[1] \in {"is_wired", "blocked"}
    /\ w[2] = "=" /\ w[3] \in {"0", "1"}

\* C17: a first Apply with "field = 1" on is_wired or blocked returns
\* without error exactly the records whose field is true, and with
\* "field = 0" exactly those whose field is false; every record of the
\* input is in one of the two results and none is in both.
C17_BooleansAreZeroOne ==
    LET HasValue(c) == c[fWhere[1]] = (fWhere[3] = "1")
    IN  (FirstApply /\ IsBoolTest(fWhere))
            => applyErr = "" /\ applyOut = SelectSeq(applyIn, HasValue)

C17_Witness ==
    /\ FirstApply /\ fWhere = <<"is_wired", "=", "0">>
    /\ Len(applyIn) = 2 /\ applyIn[1].is_wired /\ ~applyIn[2].is_wired
    /\ applyOut = <<applyIn[2]>>

\* The clause is "field LIKE 'pattern'" on a string field.
IsLike(w) ==
    /\ Len(w) >= 4 /\ w[1] \in StringFields /\ w[2] = "LIKE"
    /\ w[3] = "'" /\ w[Len(w)] = "'"
    /\ \A i \in 4..(Len(w) - 1) : w[i] # "'"

LikePattern(w) == SubSeq(w, 4, Len(w) - 1)

LowerCase(a) == CASE a = "A" -> "a" [] a = "B" -> "b" [] a = "M1" -> "m1"
                  [] OTHER -> a

\* val matches pat from positions j and i on: % stands for any run, _ for
\* any one character when one is set, and letters match without regard to
\* case when fold is set.
RECURSIVE PatternMatches(_, _, _, _, _, _)
PatternMatches(pat, i, val, j, fold, one) ==
    IF i > Len(pat) THEN j > Len(val)
    ELSE IF pat[i] = "%"
         THEN \E k \in j..(Len(val) + 1) : PatternMatches(pat, i + 1, val, k, fold, one)
    ELSE /\ j <= Len(val)
         /\ \/ one /\ pat[i] = "_"
            \/ pat[i] = val[j]
            \/ fold /\ LowerCase(pat[i]) = LowerCase(val[j])
         /\ PatternMatches(pat, i + 1, val, j + 1, fold, one)

\* C18 as stated: a first Apply with "field LIKE pattern" returns exactly
\* the records whose value matches the pattern with % as the only wildcard
\* and every other character compared case-sensitively.
C18_LikeIsCaseSensitive ==
    LET Hit(c) == PatternMatches(LikePattern(fWhere), 1, c[fWhere[1]], 1, FALSE, FALSE)
    IN  (FirstApply /\ IsLike(fWhere))
            => applyErr = "" /\ applyOut = SelectSeq(applyIn, Hit)

\* C18 as amended: a first Apply with "field LIKE pattern" returns exactly
\* the records whose value matches the pattern with % standing for any run
\* of characters, _ for any one character, and every other character
\* compared without regard to the case of ASCII letters.
C18_LikeFoldsCase ==
    LET Hit(c) == PatternMatches(LikePattern(fWhere), 1, c[fWhere[1]], 1, TRUE, TRUE)
    IN  (FirstApply /\ IsLike(fWhere))
            => applyErr = "" /\ applyOut = SelectSeq(applyIn, Hit)

C18_Witness ==
    /\ FirstApply /\ fWhere = <<"mac", "LIKE", "'", "M1", "'">>
    /\ Len(applyIn) = 2 /\ applyIn[1].mac = <<"m2">> /\ applyIn[2].mac = <<"m1">>
    /\ applyOut = <<applyIn[2]>>

\* The records of R that satisfy the condition a taken alone.
Sat(c, a) == SatisfiesText(c, a)

\* The clause is "a OR b AND c", "(a OR b) AND c" or "NOT a AND b" for
\* comparisons a, b, c of three atoms each.
IsOrAnd(w) ==
    Len(w) = 11 /\ w[4] = "OR" /\ w[8] = "AND" /\ ~Malformed(w)
IsGroupedOrAnd(w) ==
    /\ Len(w) = 13 /\ w[1] = "(" /\ w[5] = "OR" /\ w[9] = ")" /\ w[10] = "AND"
    /\ ~Malformed(w)
IsNotAnd(w) ==
    Len(w) = 8 /\ w[1] = "NOT" /\ w[5] = "AND" /\ ~Malformed(w)

\* C19: a first Apply returns, without error, for "a OR b AND c" the
\* records that satisfy a or both b and c, which is what "a OR (b AND c)"
\* returns; for "(a OR b) AND c" the records that satisfy c and at least
\* one of a, b; for "NOT a AND b" the records that satisfy b and not a.
C19_Precedence ==
    LET w == fWhere
        OrAnd(c) == Sat(c, SubSeq(w, 1, 3))
                    \/ (Sat(c, SubSeq(w, 5, 7)) /\ Sat(c, SubSeq(w, 9, 11)))
        Grouped(c) == /\ Sat(c, SubSeq(w, 11, 13))
                      /\ (Sat(c, SubSeq(w, 2, 4)) \/ Sat(c, SubSeq(w, 6, 8)))
        NotAnd(c) == ~Sat(c, SubSeq(w, 2, 4)) /\ Sat(c, SubSeq(w, 6, 8))
        Spelled == SubSeq(w, 1, 4) \o <<"(">> \o SubSeq(w, 5, 11) \o <<")">>
    IN  /\ (FirstApply /\ IsOrAnd(w)) =>
              /\ applyErr = ""
              /\ applyOut = SelectSeq(applyIn, OrAnd)
              /\ applyOut = FreshApply(Spelled, applyIn).result
        /\ (FirstApply /\ IsGroupedOrAnd(w)) =>
              (applyErr = "" /\ applyOut = SelectSeq(applyIn, Grouped))
        /\ (FirstApply /\ IsNotAnd(w)) =>
              (applyErr = "" /\ applyOut = SelectSeq(applyIn, NotAnd))

\* a holds and c does not: "a OR b AND c" keeps the record.
C19_Witness ==
    /\ FirstApply /\ IsOrAnd(fWhere)
    /\ Len(applyIn) = 2 /\ applyIn[1] # applyIn[2]
    /\ applyIn[1].is_wired /\ applyIn[1].signal >= -55
    /\ applyIn[2].blocked /\ ~applyIn[2].is_wired
    /\ applyOut = applyIn

FilterContexts == {"failed to create filter", "failed to apply filter"}

\* C20: an error of Apply, raised while the clause is compiled or evaluated
\* or by the database, is returned by the command as "failed to apply
\* filter" with that error inside; an error of NewFilter as "failed to
\* create filter" with that error inside; and a run that ends with "failed
\* to list clients" has not created or applied a Filter.
C20_FilterErrorsAreWrapped ==
    /\ (nApply = 1 /\ applyErr # "") =>
           (cmdErr = "failed to apply filter" /\ cmdCause = applyErr)
    /\ (pc = "done" /\ fault \in NewFilterFaults) =>
           /\ cmdErr = "failed to create filter"
           /\ cmdCause = NewFilterDB(fault).err /\ cmdCause # ""
    /\ cmdErr \in FilterContexts => (requests = 1 /\ cmdCause # "")
    /\ cmdErr = "failed to list clients" => (db = NoDB /\ nApply = 0)

\* An unknown column: the compile error of the query is inside the wrapper.
C20_Witness ==
    /\ pc = "done" /\ Sound /\ filterSQL = <<"invalid_field", "=", "123">>
    /\ applyErr = "failed to query clients"
    /\ cmdErr = "failed to apply filter" /\ cmdCause = applyErr

\* The three failures of a run that C21 names.
FlagValidationFailed ==
    /\ pc \notin {"ListClients", "buildWhereClause"}
    /\ cmdErr # "failed to list clients"
    /\ buildWhereClause(filterWired, filterWireless, filterBlocked,
                        filterAP, filterSQL).err # ""

FilterConstructionFailed == pc = "done" /\ fault \in NewFilterFaults

FilterApplicationFailed == nApply = 1 /\ applyErr # ""

\* C21: in a run where the validation of the flags, the construction of the
\* Filter or its application fails, the command returns an error, nothing is
\* handed to the table or the JSON renderer (nor is the no-match message
\* printed), and once the command has returned the process has exited with
\* status 1.
C21_FailuresEndTheCommand ==
    (FlagValidationFailed \/ FilterConstructionFailed \/ FilterApplicationFailed)
        => /\ cmdErr # ""
           /\ rendered = NothingRendered
           /\ pc = "done" => exitStatus = 1

\* A clause that does not compile, with records retrieved: the run is over,
\* nothing was rendered and the status is 1.
C21_Witness ==
    /\ pc = "done" /\ Sound /\ FilterApplicationFailed
    /\ Len(clients) = 2
    /\ cmdErr = "failed to apply filter" /\ exitStatus = 1
    /\ rendered = NothingRendered

C25_GetReturnsTheSameConfig ==
    [][gets' > gets =>
          /\ lastGet' = cfg'
          /\ IF gets = 0
             THEN lastGet' = Config(viper.host, viper.api_key)
             ELSE lastGet' = lastGet /\ cfg' = cfg]_vars

\* Get has been called again after the store was changed in both settings.
C25_Witness ==
    /\ gets >= 2 /\ lastGet.set /\ lastGet = cfg
    /\ lastGet.Host # viper.host /\ lastGet.APIKey # viper.api_key

\* One of the four checks of ListClients fails on the response.
ResponseFails ==
    \/ ~response.reqOK
    \/ response.status # 200
    \/ ~response.valid
    \/ response.rc # "ok"

\* C23: once ListClients has returned, if the request failed, the status
\* was not 200, the body did not parse or meta.rc was not "ok", it returned
\* an error (which the command reports as "failed to list clients") and no
\* record; and if all four checks passed, it returned the records of the
\* response's data, in the order of the response.
C23_ListClientsAllOrNothing ==
    pc # "ListClients" =>
        /\ ResponseFails =>
               /\ clients = << >>
               /\ cmdErr = "failed to list clients"
               /\ cmdCause \in {"request failed", "API request failed",
                                "failed to parse response", "API returned error"}
        /\ ~ResponseFails =>
               /\ clients = MapSeq(Unmarshal, response.data)
               /\ cmdErr # "failed to list clients"

\* A response with status 200 and a record in data, but meta.rc "error".
C23_Witness ==
    /\ pc = "done" /\ response.reqOK /\ response.status = 200 /\ response.valid
    /\ response.rc = "error" /\ Len(response.data) = 1
    /\ clients = << >> /\ cmdCause = "API returned error"

\* C24: an Apply made on a Filter that has been closed returns an error and
\* no record, whatever the collection and the clause.
C24_ApplyAfterCloseFails ==
    [][(db.state = "closed" /\ nApply' = nApply + 1)
           => (applyErr' # "" /\ applyOut' = << >> /\ db' = db)]_vars

\* Two records offered to a closed Filter whose clause selects one of them.
C24_Witness ==
    /\ pc = "library" /\ db.state = "closed" /\ nApply >= 1
    /\ fWhere = <<"is_wired", "=", "1">>
    /\ Len(applyIn) = 2 /\ applyIn[1].is_wired
    /\ applyErr = "failed to begin transaction" /\ applyOut = << >>

\* The command has got past its call of NewFilter.
PastNewFilter ==
    /\ pc \in {"Apply", "output", "Close", "done"}
    /\ whereClause # << >>
    /\ cmdErr \notin {"failed to list clients", MutexMsg}

\* C26: NewFilter does not look at the clause: unless the database fails,
\* it returns a Filter for every clause the flags can build, also one that
\* is malformed or names an unknown column, and Apply is then called; such a
\* clause is reported by Apply ("failed to query clients"), with no records,
\* after the records of the argument have been inserted, for every argument
\* and for the empty one too.
C26_ClauseIsCheckedByApplyOnly ==
    /\ (PastNewFilter /\ fault \notin NewFilterFaults) =>
           /\ db.state # "none" /\ fWhere = whereClause
           /\ cmdErr # "failed to create filter"
           /\ pc # "Apply" => nApply = 1
    /\ (nApply = 1 /\ Sound /\ ~Prepare(fWhere).ok) =>
           /\ applyErr = "failed to query clients" /\ applyOut = << >>
           /\ applyIn = clients /\ db.rows = MapSeq(Marshal, applyIn)
           /\ cmdErr = "failed to apply filter"

\* A text that is no expression, and nothing retrieved: Apply reports it.
C26_Witness ==
    /\ pc = "done" /\ Sound /\ filterSQL = <<"INVALID", "SQL", "HERE">>
    /\ nApply = 1 /\ applyIn = << >> /\ db.state = "closed"
    /\ applyErr = "failed to query clients" /\ cmdErr = "failed to apply filter"

Range(xs) == { xs[i] : i \in 1..Len(xs) }

\* The clause that negates the predicate P.
NotOf(P) == <<"NOT", "(">> \o P \o <<")">>

UsesNull(P) == \E i \in 1..Len(P) : P[i] = "NULL"

\* No column of clients_view is NULL in a stored row.
NoColumnIsNull ==
    \A i \in 1..Len(db.rows) : \A col \in ViewColumns :
        ColumnValue(db.rows[i], col).k # "null"

\* The records P selected and the ones NOT (P) selects from the same
\* collection are disjoint and are, together, all of the collection.
Partitions(P, R, out) ==
    LET Split(neg) ==
            /\ neg.err = ""
            /\ Range(out) \cap Range(neg.result) = {}
            /\ Range(out) \cup Range(neg.result) = Range(R)
    IN  Split(FreshApply(NotOf(P), R))

C28_InsertIsAtomic ==
    [][(nApply' = nApply + 1 /\ fault'.kind = "insert"
                             /\ fault'.at < Len(applyIn'))
           => /\ applyErr' = "failed to insert client"
              /\ applyOut' = << >>
              /\ db'.rows = db.rows]_vars

\* The second of two records fails to insert: the table is empty again.
C28_Witness ==
    /\ pc = "done" /\ fault = Fault("insert", 1) /\ Len(applyIn) = 2
    /\ applyErr = "failed to insert client" /\ db.rows = << >>
    /\ cmdErr = "failed to apply filter"

\* C29: when the command has returned, a database that NewFilter opened is
\* closed: after a failed Apply, after the no-match message, after JSON or
\* table output and after an invalid format alike; and a NewFilter whose
\* schema creation failed has closed the database and returned no Filter,
\* so that Apply was never called.
C29_FiltersAreClosed ==
    pc = "done" =>
        /\ db.state \in {"none", "closed"}
        /\ (PastNewFilter /\ fault.kind # "open") => db.state = "closed"
        /\ fault.kind = "schema" =>
               (db.state = "closed" /\ nApply = 0 /\ fWhere = << >>
                /\ cmdErr = "failed to create filter")

\* A run that ends with the invalid-format error after a successful Apply.
C29_Witness ==
    /\ pc = "done" /\ nApply = 1 /\ applyErr = "" /\ Len(filteredClients) = 1
    /\ cmdErr = "invalid output format" /\ db.state = "closed"

\* The command has reached the end of filtering without an error.
Filtered ==
    /\ pc = "done"
    /\ cmdErr \notin {"failed to list clients", MutexMsg,
                      "failed to create filter", "failed to apply filter"}

\* C30: with a format other than table and json, a run whose retrieval and
\* filtering succeed ends with the invalid-format error when a record is
\* left and with success and the no-match message when none is left; and
\* the request has been sent and, when the flags give a clause, Apply has
\* run, whatever the format.
C30_FormatIsCheckedLast ==
    /\ (Filtered /\ outputFormat \notin {"table", "json"}) =>
           IF Len(filteredClients) = 0
           THEN cmdErr = "" /\ rendered.kind = "nomatch" /\ exitStatus = 0
           ELSE cmdErr = "invalid output format" /\ rendered = NothingRendered
                /\ exitStatus = 1
    /\ pc = "done" => requests = 1
    /\ (Filtered /\ whereClause # << >>) => nApply = 1
    /\ cmdErr = "invalid output format" =>
           (outputFormat \notin {"table", "json"} /\ Len(filteredClients) > 0)

\* Format xml, two records retrieved, none left by the filter: success.
C30_Witness ==
    /\ pc = "done" /\ outputFormat = "xml" /\ Len(clients) = 2
    /\ nApply = 1 /\ applyErr = "" /\ filteredClients = << >>
    /\ cmdErr = "" /\ rendered.kind = "nomatch" /\ exitStatus = 0

====
